---- MODULE Spec2Model ----
(***************************************************************************)
(* QAIConnection.send_request and QAISignatureAuthHandler.generate_signature *)
(* of qingcloud/qai/connection.py.                                          *)
(*                                                                         *)
(* A Python str is a sequence of one-character strings, so concatenation,  *)
(* endswith, sorting and splitting are computed, not assumed.  A dict is   *)
(* the sequence of its <<key, value>> items in insertion order.  Digests   *)
(* and encodings are symbolic terms spelled out as text.                   *)
(***************************************************************************)
EXTENDS Integers, Sequences, FiniteSets, TLC

VARIABLES heap, args, frame

vars == <<heap, args, frame>>

(* ------------------------------ bounds --------------------------------- *)

\* Largest number of items in a caller-built params dict.
MaxParams == 2

Threads == {1, 2}
Objs == {1, 2}

\* params=None, the default of send_request.
NoneRef == 0

(* --------------------------- text and values --------------------------- *)

AccessKeyId == <<"a", "c", "c", "e", "s", "s", "_", "k", "e", "y", "_", "i", "d">>
KeyA == <<"a">>
KeyZone == <<"z", "o", "n", "e">>
Keys == {AccessKeyId, KeyA, KeyZone}

GET == <<"G", "E", "T">>
POST == <<"P", "O", "S", "T">>
DELETE == <<"D", "E", "L", "E", "T", "E">>
PUT == <<"P", "U", "T">>
Methods == {GET, POST, DELETE, PUT, <<>>}

Urls == {<<>>, <<"/", "a">>, <<"/", "a", "/">>}
AKs == {<<"A">>, <<"B">>}
SKs == {<<"S">>}

StrVal(s) == [kind |-> "str", v |-> s]
BoolVal(s) == [kind |-> "bool", v |-> s]
ListVal(s) == [kind |-> "list", v |-> s]
DictVal(s) == [kind |-> "dict", v |-> s]

\* A str, a bool, a nested (empty) mapping and a list of str.
Values ==
    { StrVal(<<"B">>), BoolVal(TRUE), DictVal(<<>>),
      ListVal(<<<<"b">>, <<"a">>>>) }

\* Code points of the characters that keys and list elements are made of.
Ord ==
    ("_" :> 95) @@ ("a" :> 97) @@ ("b" :> 98) @@ ("c" :> 99) @@ ("d" :> 100)
    @@ ("e" :> 101) @@ ("i" :> 105) @@ ("k" :> 107) @@ ("n" :> 110)
    @@ ("o" :> 111) @@ ("s" :> 115) @@ ("y" :> 121) @@ ("z" :> 122)

Min(a, b) == IF a < b THEN a ELSE b

\* s < t for Python str: first differing code point, a proper prefix is less.
LexLess(s, t) ==
    \E i \in 1..(Min(Len(s), Len(t)) + 1) :
        /\ \A j \in 1..(i - 1) : s[j] = t[j]
        /\ \/ i = Len(s) + 1 /\ i <= Len(t)
           \/ i <= Len(s) /\ i <= Len(t) /\ Ord[s[i]] < Ord[t[i]]

\* x put into the ascending list srt, after the elements that are not greater.
Insert(x, srt) ==
    LET n == Cardinality({i \in 1..Len(srt) : ~LexLess(x, srt[i])})
    IN SubSeq(srt, 1, n) \o <<x>> \o SubSeq(srt, n + 1, Len(srt))

RECURSIVE PySorted(_)
PySorted(s) ==
    IF s = <<>> THEN <<>>
    ELSE Insert(s[Len(s)], PySorted(SubSeq(s, 1, Len(s) - 1)))

(* -------------------------------- dict --------------------------------- *)

KeysOf(m) == [i \in 1..Len(m) |-> m[i][1]]
HasKey(m, k) == \E i \in 1..Len(m) : m[i][1] = k
GetItem(m, k) == m[CHOOSE i \in 1..Len(m) : m[i][1] = k][2]

SetDefault(m, k, v) == IF HasKey(m, k) THEN m ELSE Append(m, <<k, v>>)

\* m[k] = v: an existing key keeps its position, a new key goes last.
SetItem(m, k, v) ==
    IF HasKey(m, k)
    THEN [i \in 1..Len(m) |-> IF m[i][1] = k THEN <<k, v>> ELSE m[i]]
    ELSE Append(m, <<k, v>>)

\* Every dict of at most MaxParams items over Keys and Values.
ParamSets ==
    UNION { { m \in [1..n -> Keys \X Values] :
                \A i, j \in 1..n : i # j => m[i][1] # m[j][1] } : n \in 0..MaxParams }

(* ------------------------- generate_signature -------------------------- *)

EndsWithSlash(url) == Len(url) > 0 /\ url[Len(url)] = "/"

AlwaysAppendSlash(url) == url \o <<"/">>

NormalizePath(url) == IF EndsWithSlash(url) THEN url ELSE url \o <<"/">>

UnsortedKeys(m) == KeysOf(m)

SortedKeys(m) == PySorted(KeysOf(m))

IsList(value) == value.kind = "list"

UnsortedValue(value) == value

SortedValue(value) == ListVal(PySorted(value.v))

\* f"{value}": a str as it is, True/False for a bool, the repr of a dict.
Format(value) ==
    CASE value.kind = "str" -> value.v
      [] value.kind = "bool" ->
            IF value.v THEN <<"T", "r", "u", "e">> ELSE <<"F", "a", "l", "s", "e">>
      [] value.kind = "dict" -> <<"{">> \o value.v \o <<"}">>

RECURSIVE ListParts(_, _)
ListParts(key, values) ==
    IF values = <<>> THEN <<>>
    ELSE <<key \o <<"=">> \o values[1]>> \o ListParts(key, Tail(values))

RECURSIVE UrlParamParts(_)
UrlParamParts(sorted_param) ==
    IF sorted_param = <<>> THEN <<>>
    ELSE LET key == sorted_param[1][1]
             values == sorted_param[1][2]
         IN (IF ~IsList(values)
             THEN <<key \o <<"=">> \o Format(values)>>
             ELSE ListParts(key, values.v))
            \o UrlParamParts(Tail(sorted_param))

RECURSIVE Join(_, _)
Join(parts, sep) ==
    IF parts = <<>> THEN <<>>
    ELSE IF Len(parts) = 1 THEN parts[1]
    ELSE parts[1] \o sep \o Join(Tail(parts), sep)

hex_encode_md5_hash(data) ==
    IF data = <<>> THEN <<"d41d8cd98f00b204e9800998ecf8427e">>
    ELSE <<"md5(">> \o data \o <<")">>

StringToSign(method, url, url_param) ==
    method \o <<"\n">> \o url \o <<"\n">> \o url_param \o <<"\n">>
    \o hex_encode_md5_hash(<<>>)

Hmac(sk, msg) == <<"hmac-sha256(">> \o sk \o <<",">> \o msg \o <<")">>
B64(digest) == <<"b64(">> \o digest \o <<")">>
QuotePlus(s) == <<"quote_plus(">> \o s \o <<")">>

Sign(sk, string_to_sign) == QuotePlus(B64(Hmac(sk, string_to_sign)))

WithSignature(url_param, sign) ==
    url_param \o <<"&", "s", "i", "g", "n", "a", "t", "u", "r", "e", "=">> \o sign

\* The loop of lines 188-192 run on a dict nobody else touches.
RECURSIVE SortedParam(_, _)
SortedParam(params, keys) ==
    IF keys = <<>> THEN <<>>
    ELSE LET value == GetItem(params, keys[1])
         IN <<<<keys[1], IF IsList(value) THEN SortedValue(value) ELSE value>>>>
            \o SortedParam(params, Tail(keys))

\* generate_signature run alone, from entry to return.
GenerateSignature(method, url, ak, sk, params) ==
    LET url1 == NormalizePath(url)
        params1 == SetItem(params, AccessKeyId, StrVal(ak))
        sorted_param == SortedParam(params1, SortedKeys(params1))
        url_param == Join(UrlParamParts(sorted_param), <<"&">>)
    IN WithSignature(url_param, Sign(sk, StringToSign(method, url1, url_param)))

(* ------------------------------ the state ------------------------------ *)

\* heap: the caller-owned dicts, by object; args: what each caller passes,
\* call after call; frame: the locals of the call a thread is in.

NoCall ==
    [entry |-> "none", method |-> <<>>, url |-> <<>>, ak |-> <<>>, sk |-> <<>>,
     params |-> NoneRef, headers |-> <<>>]

\* headers=None and headers={} are both falsy; <<>> stands for either.
HeaderSets == {<<>>, <<<<"X", "y">>>>}

SendArgs ==
    [entry : {"send_request"}, method : Methods, url : Urls, ak : {<<"A">>}, sk : SKs,
     params : {1, NoneRef}, headers : HeaderSets]

GsArgs ==
    [entry : {"generate_signature"}, method : {GET}, url : {<<"/", "a">>},
     ak : AKs, sk : SKs, params : Objs, headers : {<<>>}]

Pending == [kind |-> "pending", val |-> <<>>]

IdleFrame ==
    [pc |-> "idle", method |-> <<>>, url |-> <<>>, ak |-> <<>>, sk |-> <<>>,
     params |-> NoneRef, params0 |-> <<>>, keys |-> <<>>, i |-> 0,
     sorted_param |-> <<>>, url_param_parts |-> <<>>, string_to_sign |-> <<>>,
     signature |-> <<>>, headers |-> <<>>, http |-> <<>>, ret |-> Pending]

\* The frame of generate_signature(method, url, ak, sk, params) at entry.
Enter(t, headers) ==
    [IdleFrame EXCEPT
        !.pc = "L184", !.method = args[t].method, !.url = args[t].url,
        !.ak = args[t].ak, !.sk = args[t].sk, !.params = args[t].params,
        !.params0 = IF args[t].params = NoneRef THEN <<>> ELSE heap[args[t].params],
        !.headers = headers]

\* One caller, one dict (or None): calls follow one another.
Init ==
    /\ args \in [Threads -> SendArgs \cup {NoCall}]
    /\ args[1] # NoCall /\ args[2] = NoCall
    /\ heap \in [Objs -> ParamSets]
    /\ heap[2] = <<>>
    /\ args[1].params = NoneRef => heap[1] = <<>>
    /\ frame = [t \in Threads |-> IdleFrame]

\* Two threads in generate_signature, on the same dict or on two dicts that
\* their callers built alike.
InitConc ==
    /\ args \in [Threads -> GsArgs]
    /\ heap \in [Objs -> {m \in ParamSets : Len(m) <= 1}]
    /\ heap[1] = heap[2]
    /\ frame = [t \in Threads |-> IdleFrame]

(* ------------------------------- actions ------------------------------- *)

\* send_request, lines 30-37: the headers, then the call of generate_signature.
SendRequest(t) ==
    /\ frame[t].pc = "idle"
    /\ args[t].entry = "send_request"
    /\ frame' = [frame EXCEPT ![t] =
            Enter(t, IF args[t].headers # <<>>
                     THEN SetItem(args[t].headers, "Channel", "api")
                     ELSE <<<<"Channel", "api">>>>)]
    /\ UNCHANGED <<heap, args>>

\* generate_signature called by a thread directly.
GenerateSignatureCall(t) ==
    /\ frame[t].pc = "idle"
    /\ args[t].entry = "generate_signature"
    /\ frame' = [frame EXCEPT ![t] = Enter(t, <<>>)]
    /\ UNCHANGED <<heap, args>>

\* url += "/" if not url.endswith("/") else ""
L184(t) ==
    /\ frame[t].pc = "L184"
    /\ frame' = [frame EXCEPT ![t].url = NormalizePath(@), ![t].pc = "L185"]
    /\ UNCHANGED <<heap, args>>

\* params["access_key_id"] = ak; None does not support item assignment.
L185(t) ==
    /\ frame[t].pc = "L185"
    /\ IF frame[t].params = NoneRef
       THEN /\ frame' = [frame EXCEPT ![t].pc = "raised",
                            ![t].ret = [kind |-> "TypeError", val |-> <<>>]]
            /\ UNCHANGED heap
       ELSE /\ heap' = [heap EXCEPT ![frame[t].params] =
                            SetItem(@, AccessKeyId, StrVal(frame[t].ak))]
            /\ frame' = [frame EXCEPT ![t].pc = "L187"]
    /\ UNCHANGED args

\* sorted_param = OrderedDict(); keys = sorted(params.keys())
L187(t) ==
    /\ frame[t].pc = "L187"
    /\ LET keys == SortedKeys(heap[frame[t].params])
       IN frame' = [frame EXCEPT ![t].keys = keys, ![t].i = 1,
                        ![t].pc = IF keys = <<>> THEN "L195" ELSE "L189"]
    /\ UNCHANGED <<heap, args>>

\* if isinstance(params[key], list)
L189(t) ==
    /\ frame[t].pc = "L189"
    /\ LET value == GetItem(heap[frame[t].params], frame[t].keys[frame[t].i])
       IN frame' = [frame EXCEPT ![t].pc = IF IsList(value) THEN "L190" ELSE "L192"]
    /\ UNCHANGED <<heap, args>>

\* The next key of the for loop, or the code after it.
NextKey(f) == IF f.i < Len(f.keys) THEN "L189" ELSE "L195"

\* sorted_param[key] = sorted(params[key])
L190(t) ==
    /\ frame[t].pc = "L190"
    /\ LET f == frame[t]
           key == f.keys[f.i]
       IN frame' = [frame EXCEPT
            ![t].sorted_param =
                SetItem(@, key, SortedValue(GetItem(heap[f.params], key))),
            ![t].i = @ + 1, ![t].pc = NextKey(f)]
    /\ UNCHANGED <<heap, args>>

\* sorted_param[key] = params[key]
L192(t) ==
    /\ frame[t].pc = "L192"
    /\ LET f == frame[t]
           key == f.keys[f.i]
       IN frame' = [frame EXCEPT
            ![t].sorted_param = SetItem(@, key, GetItem(heap[f.params], key)),
            ![t].i = @ + 1, ![t].pc = NextKey(f)]
    /\ UNCHANGED <<heap, args>>

\* Lines 195-211, on locals only: the parts, the string to sign, the signature.
L195(t) ==
    /\ frame[t].pc = "L195"
    /\ LET f == frame[t]
           parts == UrlParamParts(f.sorted_param)
           url_param == Join(parts, <<"&">>)
           string_to_sign == StringToSign(f.method, f.url, url_param)
           result == WithSignature(url_param, Sign(f.sk, string_to_sign))
       IN frame' = [frame EXCEPT
            ![t].url_param_parts = parts,
            ![t].string_to_sign = string_to_sign,
            ![t].signature = result,
            ![t].pc = IF args[t].entry = "send_request" THEN "L39" ELSE "done",
            ![t].ret = IF args[t].entry = "send_request" THEN Pending
                       ELSE [kind |-> "str", val |-> result]]
    /\ UNCHANGED <<heap, args>>

\* f"{self.protocol}://{self.host}:{self.port}{url}?{signature}"
RequestUrl(url, signature) ==
    <<"https", "://", "ai.coreshub.cn", ":", "443">> \o url \o <<"?">> \o signature

\* What requests.get/post/delete may do: a response, or one of the excepts.
Outcomes ==
    { [kind |-> "text", val |-> <<"response.text">>],
      [kind |-> "Exception", val |-> <<"Connection timed out.">>],
      [kind |-> "Exception", val |-> <<"Connection failed.">>],
      [kind |-> "Other", val |-> <<>>] }

\* One of the three branches of the try: the request, then return or raise.
Issue(t, method, verb) ==
    /\ frame[t].pc = "L39"
    /\ frame[t].method = method
    /\ \E o \in Outcomes :
        frame' = [frame EXCEPT
            ![t].http = Append(@, [verb |-> verb,
                                   url |-> RequestUrl(args[t].url, frame[t].signature),
                                   headers |-> frame[t].headers]),
            ![t].ret = o,
            ![t].pc = IF o.kind = "text" THEN "done" ELSE "raised"]
    /\ UNCHANGED <<heap, args>>

Get(t) == Issue(t, GET, "get")
Post(t) == Issue(t, POST, "post")
Delete(t) == Issue(t, DELETE, "delete")

NoDispatchRaises(t) ==
    /\ frame[t].pc = "L39"
    /\ frame[t].method \notin {GET, POST, DELETE}
    /\ frame' = [frame EXCEPT ![t].pc = "raised",
                              ![t].ret = [kind |-> "Other", val |-> <<>>]]
    /\ UNCHANGED <<heap, args>>

\* No branch of the try is taken: the function falls off its end.
NoDispatch(t) ==
    /\ frame[t].pc = "L39"
    /\ frame[t].method \notin {GET, POST, DELETE}
    /\ frame' = [frame EXCEPT ![t].pc = "done",
                              ![t].ret = [kind |-> "None", val |-> <<>>]]
    /\ UNCHANGED <<heap, args>>

\* The caller has the result or the exception; it may call again.
Return(t) ==
    /\ frame[t].pc \in {"done", "raised"}
    /\ frame' = [frame EXCEPT ![t] = IdleFrame]
    /\ UNCHANGED <<heap, args>>

Next ==
    \E t \in Threads :
        \/ SendRequest(t)
        \/ L184(t) \/ L185(t) \/ L187(t) \/ L189(t) \/ L190(t) \/ L192(t) \/ L195(t)
        \/ Get(t) \/ Post(t) \/ Delete(t) \/ NoDispatch(t)
        \/ Return(t)

Spec == Init /\ [][Next]_vars

NextConc ==
    \E t \in Threads :
        \/ GenerateSignatureCall(t)
        \/ L184(t) \/ L185(t) \/ L187(t) \/ L189(t) \/ L190(t) \/ L192(t) \/ L195(t)
        \/ Return(t)

SpecConc == InitConc /\ [][NextConc]_vars

(* ------------------------ reading the results -------------------------- *)

\* generate_signature has returned to thread t: its result is in the frame.
GsDone(t) == frame[t].signature # <<>>

\* generate_signature has just returned to thread t or to its send_request.
GsReturned(t) ==
    /\ GsDone(t)
    /\ frame[t].pc = IF args[t].entry = "send_request" THEN "L39" ELSE "done"

\* send_request or generate_signature has returned or raised to thread t.
Ended(t) == frame[t].pc \in {"done", "raised"}

StartsWith(s, prefix) ==
    Len(prefix) <= Len(s) /\ SubSeq(s, 1, Len(prefix)) = prefix

\* s.split(c)
RECURSIVE Split(_, _)
Split(s, c) ==
    IF \A i \in 1..Len(s) : s[i] # c THEN <<s>>
    ELSE LET i == CHOOSE k \in 1..Len(s) :
                    s[k] = c /\ \A j \in 1..(k - 1) : s[j] # c
         IN <<SubSeq(s, 1, i - 1)>> \o Split(SubSeq(s, i + 1, Len(s)), c)

\* What the server reads in the string to sign: its lines, and the pairs of
\* the canonical parameter string with the key and the value of each.
SignedMethod(t) == Split(frame[t].string_to_sign, "\n")[1]
SignedPath(t) == Split(frame[t].string_to_sign, "\n")[2]
SignedParams(t) == Split(frame[t].string_to_sign, "\n")[3]
SignedPairs(t) == Split(SignedParams(t), "&")
PairKey(pair) == Split(pair, "=")[1]
PairValue(pair) == SubSeq(pair, Len(PairKey(pair)) + 2, Len(pair))

\* The path and the query of a requested URL, after scheme, host and port.
RequestPath(u) == Split(SubSeq(u, 6, Len(u)), "?")[1]
RequestQuery(u) == SubSeq(u, 6 + Len(RequestPath(u)) + 1, Len(u))

Bijections(n) ==
    { f \in [1..n -> 1..n] : \A i, j \in 1..n : i # j => f[i] # f[j] }

\* The dicts with the items of m in another insertion order.
Reorderings(m) ==
    { [i \in 1..Len(m) |-> m[p[i]]] : p \in Bijections(Len(m)) }

\* A list value with its elements in every order; any other value as it is.
ValueReorderings(value) ==
    IF IsList(value)
    THEN { ListVal([i \in 1..Len(value.v) |-> value.v[p[i]]]) :
                p \in Bijections(Len(value.v)) }
    ELSE {value}

\* The dicts that differ from m in the order of the elements of list values.
ListReorderings(m) ==
    { [i \in 1..Len(m) |-> <<m[i][1], c[i]>>] :
        c \in { c \in [1..Len(m) -> UNION {ValueReorderings(m[i][2]) : i \in 1..Len(m)}] :
                    \A i \in 1..Len(m) : c[i] \in ValueReorderings(m[i][2]) } }

\* The same call on the dict q instead of the one the thread passed.
AloneOn(t, url, q) ==
    GenerateSignature(args[t].method, url, args[t].ak, args[t].sk, q)

(* ------------------------------ the claims ----------------------------- *)

\* C1: generate_signature leaves the dict passed as params as it was: after
\* the call it has the keys and values it had at entry.
ParamsNotMutated ==
    \A t \in Threads :
        GsDone(t) => heap[frame[t].params] = frame[t].params0

\* C2: whatever the interleaving, a call of generate_signature returns the
\* string it returns when run alone on its inputs as they were at entry, and
\* its access_key_id pair carries its own ak.
ConcurrentAsAlone ==
    \A t \in Threads :
        GsReturned(t) =>
            /\ frame[t].signature = AloneOn(t, args[t].url, frame[t].params0)
            /\ \E i \in 1..Len(SignedPairs(t)) :
                SignedPairs(t)[i] = AccessKeyId \o <<"=">> \o args[t].ak

\* C3: the canonical parameter string has exactly one pair with the key
\* access_key_id, its value is the ak argument, and a different value the
\* caller put under that key is in no pair of that key; the output starts
\* with that canonical string.
IdentityOverwrite ==
    \A t \in Threads :
        GsReturned(t) =>
            LET pairs == SignedPairs(t)
                own == {i \in 1..Len(pairs) : PairKey(pairs[i]) = AccessKeyId}
                p0 == frame[t].params0
            IN /\ Cardinality(own) = 1
               /\ \A i \in own : PairValue(pairs[i]) = args[t].ak
               /\ StartsWith(frame[t].signature, SignedParams(t) \o <<"&">>)
               /\ HasKey(p0, AccessKeyId) /\ GetItem(p0, AccessKeyId) # StrVal(args[t].ak)
                    => \A i \in own :
                        LET given == GetItem(p0, AccessKeyId)
                        IN IF IsList(given)
                           THEN \A e \in 1..Len(given.v) : PairValue(pairs[i]) # given.v[e]
                           ELSE PairValue(pairs[i]) # Format(given)

\* C3 witness: a call has returned whose dict held another access_key_id.
IdentityOverwriteWitness ==
    \E t \in Threads :
        /\ GsDone(t)
        /\ HasKey(frame[t].params0, AccessKeyId)
        /\ GetItem(frame[t].params0, AccessKeyId) = StrVal(<<"B">>)
        /\ args[t].ak = <<"A">>

\* C4: the pairs of the canonical parameter string are in ascending order of
\* their keys, access_key_id among them, and the call returns the same string
\* for the same items in any insertion order.
KeyOrderIndependence ==
    \A t \in Threads :
        GsReturned(t) =>
            LET pairs == SignedPairs(t)
            IN /\ \A i, j \in 1..Len(pairs) :
                    i < j => ~LexLess(PairKey(pairs[j]), PairKey(pairs[i]))
               /\ \A i, j \in 1..Len(pairs) :
                    LexLess(PairKey(pairs[i]), PairKey(pairs[j])) => i < j
               /\ \A q \in Reorderings(frame[t].params0) :
                    AloneOn(t, args[t].url, q) = frame[t].signature

\* C4 witness: a call has returned whose dict had its keys in descending
\* order, and access_key_id was sorted in between them.
KeyOrderWitness ==
    \E t \in Threads :
        /\ GsDone(t)
        /\ KeysOf(frame[t].params0) = <<KeyZone, KeyA>>
        /\ frame[t].keys = <<KeyA, AccessKeyId, KeyZone>>

\* C5: a list value gives one pair per element, in ascending order of the
\* elements, and the call returns the same string for any order of the
\* elements of its list values.
ListOrderIndependence ==
    \A t \in Threads :
        GsReturned(t) =>
            LET pairs == SignedPairs(t)
                p0 == frame[t].params0
            IN /\ \A n \in 1..Len(p0) :
                    IsList(p0[n][2]) /\ p0[n][1] # AccessKeyId =>
                        LET mine == {i \in 1..Len(pairs) : PairKey(pairs[i]) = p0[n][1]}
                        IN /\ Cardinality(mine) = Len(p0[n][2].v)
                           /\ \A e \in 1..Len(p0[n][2].v) :
                                \E i \in mine : PairValue(pairs[i]) = p0[n][2].v[e]
                           /\ \A i, j \in mine :
                                i < j => ~LexLess(PairValue(pairs[j]), PairValue(pairs[i]))
               /\ \A q \in ListReorderings(p0) :
                    AloneOn(t, args[t].url, q) = frame[t].signature

\* C5 witness: a call has returned whose dict had the list ["b", "a"], and
\* the pair of "a" comes right before the pair of "b".
ListOrderWitness ==
    \E t \in Threads :
        /\ GsDone(t)
        /\ \E n \in 1..Len(frame[t].params0) :
            /\ frame[t].params0[n] = <<KeyZone, ListVal(<<<<"b">>, <<"a">>>>)>>
            /\ \E i \in 1..(Len(SignedPairs(t)) - 1) :
                /\ SignedPairs(t)[i] = KeyZone \o <<"=", "a">>
                /\ SignedPairs(t)[i + 1] = KeyZone \o <<"=", "b">>

\* C6: the path in the string to sign is the url argument, with one "/"
\* appended only if the argument does not end with "/"; normalizing it again
\* changes nothing; and the call with the url p and with p + "/" return the
\* same string.
PathNormalization ==
    \A t \in Threads :
        GsReturned(t) =>
            LET path == SignedPath(t)
                url == args[t].url
            IN /\ EndsWithSlash(path)
               /\ path = url \/ path = url \o <<"/">>
               /\ EndsWithSlash(url) => path = url
               /\ NormalizePath(path) = path
               /\ ~EndsWithSlash(url) =>
                    AloneOn(t, url \o <<"/">>, frame[t].params0) = frame[t].signature
               /\ EndsWithSlash(url) =>
                    AloneOn(t, SubSeq(url, 1, Len(url) - 1), frame[t].params0)
                        = frame[t].signature
                    \/ EndsWithSlash(SubSeq(url, 1, Len(url) - 1))

\* C6 witness: a call with a url that lacks the trailing "/" has returned.
PathNormalizationWitness ==
    \E t \in Threads :
        /\ GsDone(t)
        /\ args[t].url = <<"/", "a">>
        /\ SignedPath(t) = <<"/", "a", "/">>

\* C7: a value that is not a str, a bool or a list of str makes the call fail
\* with InvalidParameterKind: no string is signed and nothing is returned.
UnsupportedKindRejected ==
    \A t \in Threads :
        (\E n \in 1..Len(frame[t].params0) :
            /\ frame[t].params0[n][1] # AccessKeyId
            /\ frame[t].params0[n][2].kind = "dict")
        => /\ frame[t].string_to_sign = <<>>
           /\ frame[t].signature = <<>>
           /\ Ended(t) => frame[t].ret.kind = "InvalidParameterKind"

\* C8: with an empty method or an empty path the call (here on a dict)
\* reports EmptyMethodOrPath: no digest or HMAC is computed and nothing is
\* returned.
EmptyMethodOrPathReported ==
    \A t \in Threads :
        /\ frame[t].pc # "idle"
        /\ args[t].params # NoneRef
        /\ args[t].method = <<>> \/ args[t].url = <<>>
        => /\ frame[t].string_to_sign = <<>>
           /\ frame[t].signature = <<>>
           /\ Ended(t) => frame[t].ret.kind = "EmptyMethodOrPath"

\* C9: every HTTP request of send_request is for the method and path that
\* were signed, with the returned fragment after "?".
SignedIsSent ==
    \A t \in Threads :
        \A n \in 1..Len(frame[t].http) :
            /\ GsDone(t)
            /\ frame[t].method \in {GET, POST, DELETE}
            /\ SignedMethod(t) = frame[t].method
            /\ RequestQuery(frame[t].http[n].url) = frame[t].signature
            /\ RequestPath(frame[t].http[n].url) = SignedPath(t)

\* What send_request does with the signature, by method.
Dispatched(t) ==
    IF args[t].method \in {GET, POST, DELETE}
    THEN /\ GsDone(t)
         /\ Len(frame[t].http) = 1
    ELSE /\ GsDone(t)
         /\ frame[t].http = <<>>
         /\ frame[t].pc = "done"
         /\ frame[t].ret.kind = "None"

\* C10: send_request issues exactly one HTTP request for GET, POST and
\* DELETE; for another method it computes a signature, issues no request,
\* raises nothing and returns None.
DispatchByMethod ==
    \A t \in Threads :
        args[t].entry = "send_request" /\ Ended(t) => Dispatched(t)

\* C10, amended: that holds when params is a dict; with params=None the call
\* raises TypeError, without a signature or a request, whatever the method.
\* No call issues more than one request.
DispatchByMethodOfDict ==
    \A t \in Threads :
        /\ Len(frame[t].http) <= 1
        /\ args[t].entry = "send_request" /\ Ended(t) =>
            IF args[t].params # NoneRef
            THEN Dispatched(t)
            ELSE /\ ~GsDone(t)
                 /\ frame[t].http = <<>>
                 /\ frame[t].pc = "raised"
                 /\ frame[t].ret.kind = "TypeError"

\* C10 witness: send_request with PUT and a dict has returned None, with a
\* signature computed and no request issued.
DispatchWitness ==
    \E t \in Threads :
        /\ args[t].entry = "send_request"
        /\ args[t].method = PUT
        /\ args[t].params # NoneRef
        /\ frame[t].pc = "done"
        /\ frame[t].ret.kind = "None"
        /\ GsDone(t)
        /\ frame[t].http = <<>>

====
